---- MODULE Spec2Model ----
(***************************************************************************)
(* Model of alvidir's transactional graph engine                           *)
(* (alvidir/src/schema/transaction.rs): Background transactions rooted at  *)
(* a Schema, the Contexts they hand out, the shared operation log, and     *)
(* Foreground transactions nested in a Context.                            *)
(*                                                                         *)
(* Ownership rules the Rust compiler enforces are part of the model:       *)
(*  - a Context borrows its transaction, so once the transaction has been  *)
(*    consumed (commit) or dropped no Context of it can be used again; a   *)
(*    Context that is merely still in scope keeps its Arc clone of the log *)
(*    alive, which is what commit's sole-owner test observes;              *)
(*  - a Foreground borrows its parent Context, so that Context cannot be   *)
(*    dropped while the Foreground is in use.                              *)
(***************************************************************************)
EXTENDS Integers, Sequences, FiniteSets, TLC

\* ------------------------------------------------------------------ bounds
NumTx == 2      \* Background transactions created over the one Schema
MaxId == 2      \* node identifiers 1..MaxId
MaxVal == 2     \* node payloads 1..MaxVal
MaxLog == 3     \* operations buffered by one transaction scope (root + nested)
MaxCtx == 2     \* Contexts alive at once on one operation log
NumThreads == 2 \* threads appending through Contexts of one Background
NumRuns == 2    \* concurrent users of one Resource
NumEntities == 2  \* entity identifiers 1..NumEntities
MaxListed == 3  \* entities added to the event
NumEvents == 3  \* event identifiers 1..NumEvents
NumSaves == 2   \* concurrent SaveExperience runs

Txs == 1..NumTx
Ids == 1..MaxId
Vals == 1..MaxVal
Scopes == {"bg", "fg"}
Threads == 1..NumThreads
Runs == 1..NumRuns
Entities == 1..NumEntities
EventIds == 1..NumEvents
SaveRuns == 1..NumSaves

\* An identified value T: Identify (id.rs) with a payload.
Nodes == [id : Ids, val : Vals]

\* Option<T>
None == <<>>
Some(x) == <<x>>

\* ------------------------------------------------------------- operations
\* enum Operation<T> { Save(T), Delete(T::Id) }
Save(node) == [kind |-> "Save", id |-> node.id, val |-> node.val]
Delete(node_id) == [kind |-> "Delete", id |-> node_id, val |-> 0]
Operations == {Save(n) : n \in Nodes} \cup {Delete(i) : i \in Ids}

\* impl Identify for Operation: the node's id for Save, the id for Delete.
OpId(op) == op.id

\* The node a Save carries.
OpNode(op) == [id |-> op.id, val |-> op.val]

\* ------------------------------------------------------------------ graph
\* Graph<T>: at most one value per id; 0 stands for "no value".
Graphs == [Ids -> 0..MaxVal]
EmptyGraph == [i \in Ids |-> 0]
\* The Graphs a Schema starts from: each id absent or holding the payload MaxVal.
GraphSeeds == [Ids -> {0, MaxVal}]

GraphGet(g, id) == IF g[id] = 0 THEN None ELSE Some([id |-> id, val |-> g[id]])
GraphContains(g, id) == g[id] # 0
GraphInsert(g, node) == [g EXCEPT ![node.id] = node.val]
GraphRemove(g, id) == [g EXCEPT ![id] = 0]

VARIABLES
    graph,       \* the Schema's Graph
    holder,      \* the Background transaction holding the Schema's write guard, 0 if free
    txState,     \* per Background: "live", "committed" (consumed by commit), "dropped"
    guard,       \* per Background: its OnceLock<SchemaWriteGuard> is initialised
    waiting,     \* per Background: the begin() calls blocked inside get_or_init, on
                 \* schema.write() or on the OnceLock another caller is initialising
    operations,  \* per Background, per scope: the operation log (Arc<RwLock<Vec<Operation>>>)
    poisoned,    \* per Background, per scope: the log's RwLock is poisoned
    contexts,    \* per Background, per scope: Contexts holding a clone of the log's Arc
    fgOpen,      \* per Background: a Foreground transaction is open on one of its Contexts
    last,        \* the transaction that has just ended, if the latest step ended one:
                 \* which call, on which Background, what it reported, the length of its log
    graph0,      \* the Graph as it was when the transactions were created
    issued       \* per Background: the operations issued through its own Contexts,
                 \* followed or interleaved, in call order, by the logs of the
                 \* Foregrounds whose commit() passed its checks

\* Two threads appending through two Contexts of one Background.
VARIABLES
    lock,        \* the thread holding the write lock of the shared log, 0 if free
    thread,      \* per thread: where its save/delete call stands, with which operation
    sent,        \* per thread: the operations its calls have appended, in call order
    origin       \* per entry of the shared log: the thread that appended it

\* A Resource holding an event's entities, and the runs that use it.
VARIABLES
    mu,          \* the value inside the Resource's Mutex: the entities of the event
    muLock,      \* the run holding the Mutex, 0 if free
    runs,        \* per run: where it stands, the entity it adds, its guard's copy and
                 \* the value the Mutex held when the guard was obtained
    committed    \* the entities of the runs that have committed, in commit order

\* A LiFoConstraintChain and what its `with` returned.
VARIABLES
    chain,       \* the links chained onto the default chain, earliest first, each
                 \* with its `early` flag
    baseEarly,   \* the `early` flag of the default chain the links are chained onto
    verdict      \* what the latest `with` on the whole chain evaluated and returned

\* A SelectCloserExperiences and the experienced events it has consumed.
VARIABLES
    subject,     \* the subject event of the selection, None before from_builder
    before,      \* SelectCloserExperiences.before
    after,       \* SelectCloserExperiences.after
    consumed     \* the experienced events handed to `with` so far

\* An InMemoryEventRepository.
VARIABLES
    events,      \* the stored events: per id the stored event's name, 0 if none
    createdIds,  \* the ids of the create calls that returned Ok
    reply        \* the latest call and what it returned

\* SaveExperience runs of one entity.
VARIABLES
    experiences, \* the events the entity has an experience of
    run          \* per run: where it stands, its target event, the events it holds,
                 \* the events it has begun since it started, the events of the
                 \* listed experiences it has yet to begin, what it returned

txVars == <<graph, holder, txState, guard, waiting, operations, poisoned, contexts,
            fgOpen, last, graph0, issued>>
threadVars == <<lock, thread, sent, origin>>
resourceVars == <<mu, muLock, runs, committed>>
chainVars == <<chain, baseEarly, verdict>>
closerVars == <<subject, before, after, consumed>>
repoVars == <<events, createdIds, reply>>
saveVars == <<experiences, run>>

\* What the transactions leave alone.
outerVars == <<threadVars, resourceVars, chainVars, closerVars, repoVars, saveVars>>

vars == <<txVars, threadVars, resourceVars, chainVars, closerVars, repoVars, saveVars>>

\* No transaction was ended by the latest step.
NoCall == [call |-> "none", tx |-> 0, result |-> "none", len |-> 0]
Ended(c, t, r, n) == [call |-> c, tx |-> t, result |-> r, len |-> n]

\* The shape of the state.
TypeOK ==
    /\ graph \in Graphs
    /\ graph0 \in Graphs
    /\ holder \in 0..NumTx
    /\ txState \in [Txs -> {"live", "committed", "dropped"}]
    /\ guard \in [Txs -> BOOLEAN]
    /\ waiting \in [Txs -> 0..MaxCtx]
    /\ poisoned \in [Txs -> [Scopes -> BOOLEAN]]
    /\ contexts \in [Txs -> [Scopes -> 0..MaxCtx]]
    /\ fgOpen \in [Txs -> BOOLEAN]
    /\ \A t \in Txs :
          /\ \A s \in Scopes :
                /\ Len(operations[t][s]) <= MaxLog
                /\ \A i \in DOMAIN operations[t][s] : operations[t][s][i] \in Operations
          /\ Len(issued[t]) <= MaxLog
    /\ last.tx \in 0..NumTx
    /\ last.len \in 0..MaxLog

EmptyLogs == [s \in Scopes |-> <<>>]
NoContexts == [s \in Scopes |-> 0]
NotPoisoned == [s \in Scopes |-> FALSE]

\* No save or delete call is in flight on any thread.
IdleThread == [pc |-> "idle", op |-> None, len |-> 0]

ThreadInit ==
    /\ lock = 0
    /\ thread = [c \in Threads |-> IdleThread]
    /\ sent = [c \in Threads |-> <<>>]
    /\ origin = <<>>

\* No run is using the Resource, whose event lists no entity yet.
IdleRun == [pc |-> "idle", entity |-> 0, data |-> <<>>, orig |-> <<>>]

ResourceInit ==
    /\ mu = <<>>
    /\ muLock = 0
    /\ runs = [a \in Runs |-> IdleRun]
    /\ committed = <<>>

\* LiFoConstraintChain::default(): no link chained, short-circuiting enabled.
ChainInit ==
    /\ chain = <<>>
    /\ baseEarly = TRUE
    /\ verdict = None

\* No selection has been built.
CloserInit ==
    /\ subject = None
    /\ before = None
    /\ after = None
    /\ consumed = {}

\* No call has been made on the repository.
NoReply == [call |-> "none", id |-> 0, result |-> "none", name |-> 0]

\* InMemoryEventRepository::default(): no event stored.
RepoInit ==
    /\ events = [id \in EventIds |-> 0]
    /\ createdIds = {}
    /\ reply = NoReply

\* A SaveExperience that has not been executed.
IdleSave ==
    [pc |-> "idle", target |-> 0, held |-> {}, begun |-> <<>>, todo |-> <<>>,
     result |-> "none"]

\* The entity has no experience yet and no SaveExperience is under way.
SaveInit ==
    /\ experiences = {}
    /\ run = [a \in SaveRuns |-> IdleSave]

Init ==
    /\ graph \in GraphSeeds
    /\ graph0 = graph
    /\ holder = 0
    /\ txState = [t \in Txs |-> "live"]
    /\ guard = [t \in Txs |-> FALSE]
    /\ waiting = [t \in Txs |-> 0]
    /\ operations = [t \in Txs |-> EmptyLogs]
    /\ poisoned = [t \in Txs |-> NotPoisoned]
    /\ contexts = [t \in Txs |-> NoContexts]
    /\ fgOpen = [t \in Txs |-> FALSE]
    /\ last = NoCall
    /\ issued = [t \in Txs |-> <<>>]
    /\ ThreadInit
    /\ ResourceInit
    /\ ChainInit
    /\ CloserInit
    /\ RepoInit
    /\ SaveInit


\* ------------------------------------------------------- Context (reads)
\* Mutant of RFind: the scan without `.rev()`, oldest operation first.
RECURSIVE FindOldest(_, _)
FindOldest(ops, id) ==
    IF ops = <<>> THEN None
    ELSE IF OpId(Head(ops)) = id THEN Some(Head(ops))
    ELSE FindOldest(Tail(ops), id)

\* guard.iter().rev().find(|op| op.id() == id): the most recent operation on id.
RECURSIVE RFind(_, _)
RFind(ops, id) ==
    IF ops = <<>> THEN None
    ELSE IF OpId(ops[Len(ops)]) = id THEN Some(ops[Len(ops)])
    ELSE RFind(SubSeq(ops, 1, Len(ops) - 1), id)

\* Source::get for Context: the log overlays the Graph.
get(ops, g, id) ==
    LET found == RFind(ops, id) IN
    IF found = None THEN GraphGet(g, id)
    ELSE IF found[1].kind = "Save" THEN Some(OpNode(found[1]))
    ELSE None

\* Mutant of contains: any operation logged on id counts as presence, a Delete
\* included.
ContainsLogged(ops, g, id) ==
    LET found == RFind(ops, id) IN
    IF found = None THEN GraphContains(g, id)
    ELSE TRUE

\* Source::contains for Context.
contains(ops, g, id) ==
    LET found == RFind(ops, id) IN
    IF found = None THEN GraphContains(g, id)
    ELSE found[1].kind = "Save"

\* A Context of scope s of transaction t can be used: its transaction is alive
\* and, for a nested Context, so is the Foreground it borrows.
Usable(t, s) ==
    /\ txState[t] = "live"
    /\ contexts[t][s] > 0
    /\ (s = "fg" => fgOpen[t])

\* Mutant of ContextLog: Foreground::begin cloning the parent Context's log
\* instead of the Foreground's own.
ContextLogParent(s) == "bg"

\* The log a Context of scope s shares: `operations: self.operations.clone()`, the
\* Background's log from Background::begin, the Foreground's own from Foreground::begin.
ContextLog(s) == s

\* Mutant of ContextGet: a nested Context reading through its parent Context,
\* the parent's log under its own.
ContextGetThroughParent(t, s, id) ==
    IF s = "fg" THEN get(operations[t]["bg"] \o operations[t]["fg"], graph, id)
    ELSE get(operations[t][ContextLog(s)], graph, id)

\* What a Context of scope s of transaction t reads for id. A nested Context was
\* built with `graph: self.context.graph`: it reads the Graph, not the parent log.
ContextGet(t, s, id) == get(operations[t][ContextLog(s)], graph, id)
ContextContains(t, s, id) == contains(operations[t][ContextLog(s)], graph, id)

\* Mutant of Push: the operation inserted at the front of the log.
PushFront(ops, op) == <<op>> \o ops

\* ------------------------------------------------------ Context (writes)
\* guard.push(op) under the write lock (a poisoned lock is recovered).
Push(ops, op) == Append(ops, op)

\* Room left in the transaction scope's buffers (model bound).
Room(t) == Len(operations[t]["bg"]) + Len(operations[t]["fg"]) < MaxLog

\* Context::save: one Operation::Save pushed onto the log the Context shares.
ContextSave(t, s, node) ==
    /\ Usable(t, s)
    /\ Room(t)
    /\ operations' = [operations EXCEPT ![t][ContextLog(s)] = Push(@, Save(node))]
    /\ issued' = IF s = "bg" THEN [issued EXCEPT ![t] = Append(@, Save(node))]
                 ELSE issued
    /\ last' = NoCall
    /\ UNCHANGED <<graph, holder, txState, guard, waiting, poisoned, contexts,
                   fgOpen, graph0>>
    /\ UNCHANGED outerVars

\* Mutant of ContextDelete: the removal also written through to the Graph.
ContextDeleteThrough(t, s, node_id) ==
    /\ Usable(t, s)
    /\ Room(t)
    /\ operations' = [operations EXCEPT ![t][ContextLog(s)] = Push(@, Delete(node_id))]
    /\ issued' = IF s = "bg" THEN [issued EXCEPT ![t] = Append(@, Delete(node_id))]
                 ELSE issued
    /\ graph' = GraphRemove(graph, node_id)
    /\ last' = NoCall
    /\ UNCHANGED <<holder, txState, guard, waiting, poisoned, contexts,
                   fgOpen, graph0>>
    /\ UNCHANGED outerVars

\* Context::delete: one Operation::Delete pushed onto the log the Context shares.
ContextDelete(t, s, node_id) ==
    /\ Usable(t, s)
    /\ Room(t)
    /\ operations' = [operations EXCEPT ![t][ContextLog(s)] = Push(@, Delete(node_id))]
    /\ issued' = IF s = "bg" THEN [issued EXCEPT ![t] = Append(@, Delete(node_id))]
                 ELSE issued
    /\ last' = NoCall
    /\ UNCHANGED <<graph, holder, txState, guard, waiting, poisoned, contexts,
                   fgOpen, graph0>>
    /\ UNCHANGED outerVars

\* A Context goes out of use and is dropped: its Arc clone of the log is released.
\* The Context an open Foreground borrows cannot be dropped.
ContextDrop(t, s) ==
    /\ Usable(t, s)
    /\ (s = "bg" /\ fgOpen[t]) => contexts[t][s] > 1
    /\ contexts' = [contexts EXCEPT ![t][s] = @ - 1]
    /\ last' = NoCall
    /\ UNCHANGED <<graph, holder, txState, guard, waiting, operations, poisoned,
                   fgOpen, graph0, issued>>
    /\ UNCHANGED outerVars

\* ------------------------------------------------------------ Background
\* Schema::write(): the exclusive write guard over the Graph is free.
SchemaFree == holder = 0

\* Mutant of BackgroundBegin: the guard is taken without waiting for the
\* transaction that holds it.
BackgroundBeginNoWait(t) ==
    /\ txState[t] = "live"
    /\ contexts[t]["bg"] + waiting[t] < MaxCtx
    /\ holder' = IF guard[t] THEN holder ELSE t
    /\ guard' = [guard EXCEPT ![t] = TRUE]
    /\ contexts' = [contexts EXCEPT ![t]["bg"] = @ + 1]
    /\ last' = NoCall
    /\ UNCHANGED <<graph, txState, waiting, operations, poisoned, fgOpen, graph0, issued>>
    /\ UNCHANGED outerVars

\* Mutant of BackgroundBegin: `self.schema.write()` called on every begin(), the
\* OnceLock left aside.
BackgroundBeginReacquire(t) ==
    /\ txState[t] = "live"
    /\ contexts[t]["bg"] + waiting[t] < MaxCtx
    /\ IF SchemaFree /\ waiting[t] = 0
       THEN /\ holder' = t
            /\ guard' = [guard EXCEPT ![t] = TRUE]
            /\ contexts' = [contexts EXCEPT ![t]["bg"] = @ + 1]
            /\ UNCHANGED waiting
       ELSE /\ waiting' = [waiting EXCEPT ![t] = @ + 1]
            /\ UNCHANGED <<holder, guard, contexts>>
    /\ last' = NoCall
    /\ UNCHANGED <<graph, txState, operations, poisoned, fgOpen, graph0, issued>>
    /\ UNCHANGED outerVars

\* Mutant of BackgroundBegin: begin() still callable on a transaction that has
\* been committed or dropped (commit taking `&self`).
BackgroundBeginAfterEnd(t) ==
    /\ contexts[t]["bg"] + waiting[t] < MaxCtx
    /\ IF guard[t]
       THEN /\ contexts' = [contexts EXCEPT ![t]["bg"] = @ + 1]
            /\ UNCHANGED <<holder, guard, waiting>>
       ELSE IF SchemaFree /\ waiting[t] = 0
       THEN /\ holder' = t
            /\ guard' = [guard EXCEPT ![t] = TRUE]
            /\ contexts' = [contexts EXCEPT ![t]["bg"] = @ + 1]
            /\ UNCHANGED waiting
       ELSE /\ waiting' = [waiting EXCEPT ![t] = @ + 1]
            /\ UNCHANGED <<holder, guard, contexts>>
    /\ last' = NoCall
    /\ UNCHANGED <<graph, txState, operations, poisoned, fgOpen, graph0, issued>>
    /\ UNCHANGED outerVars

\* Background::begin: `self.guard.get_or_init(|| self.schema.write())`, then a
\* new Context sharing the log. With the guard already initialised it is reused;
\* otherwise the first caller runs schema.write(), which returns at once when the
\* guard is free and blocks the caller when another transaction holds it. A
\* caller arriving while the first one is still inside get_or_init blocks on the
\* OnceLock until the guard is there.
BackgroundBegin(t) ==
    /\ txState[t] = "live"
    /\ contexts[t]["bg"] + waiting[t] < MaxCtx
    /\ IF guard[t]
       THEN /\ contexts' = [contexts EXCEPT ![t]["bg"] = @ + 1]
            /\ UNCHANGED <<holder, guard, waiting>>
       ELSE IF SchemaFree /\ waiting[t] = 0
       THEN /\ holder' = t
            /\ guard' = [guard EXCEPT ![t] = TRUE]
            /\ contexts' = [contexts EXCEPT ![t]["bg"] = @ + 1]
            /\ UNCHANGED waiting
       ELSE /\ waiting' = [waiting EXCEPT ![t] = @ + 1]
            /\ UNCHANGED <<holder, guard, contexts>>
    /\ last' = NoCall
    /\ UNCHANGED <<graph, txState, operations, poisoned, fgOpen, graph0, issued>>
    /\ UNCHANGED outerVars

\* A blocked begin() call returns its Context: the first one once schema.write()
\* is granted the guard, the others once the OnceLock holds it.
BackgroundBeginResume(t) ==
    /\ txState[t] = "live"
    /\ waiting[t] > 0
    /\ guard[t] \/ SchemaFree
    /\ holder' = t
    /\ guard' = [guard EXCEPT ![t] = TRUE]
    /\ waiting' = [waiting EXCEPT ![t] = @ - 1]
    /\ contexts' = [contexts EXCEPT ![t]["bg"] = @ + 1]
    /\ last' = NoCall
    /\ UNCHANGED <<graph, txState, operations, poisoned, fgOpen, graph0, issued>>
    /\ UNCHANGED outerVars

\* Mutant of Released: the guard is not given back when the transaction ends.
ReleasedNever(h, hasGuard) == h

\* Mutant of Released: the Schema's guard is given back by a transaction that
\* never took it.
ReleasedAlways(h, hasGuard) == 0

\* The holder of the Schema's write guard after a Background ended: the guard
\* taken out of the OnceLock (`self.guard.take()`), if any, is dropped on return.
Released(h, hasGuard) == IF hasGuard THEN 0 ELSE h

\* The closure handed to filter_map: Save inserts, Delete removes.
ApplyOp(g, op) ==
    IF op.kind = "Save" THEN GraphInsert(g, OpNode(op)) ELSE GraphRemove(g, OpId(op))

\* The closure run over a whole log, in append order.
RECURSIVE ApplyAll(_, _)
ApplyAll(g, ops) ==
    IF ops = <<>> THEN g ELSE ApplyAll(ApplyOp(g, Head(ops)), Tail(ops))

\* Mutant of DrainLog: the iterator polled once, so only the first operation runs.
DrainFirst(g, ops) == IF ops = <<>> THEN g ELSE ApplyOp(g, Head(ops))

\* `let _ = ops.into_iter().filter_map(..)`: filter_map is a lazy adaptor, and the
\* iterator it returns is dropped without ever being polled, so the closure runs
\* for no operation and the Graph stays as it is.
DrainLog(g, ops) == g

\* Mutant of CommitGraph: the log read through its lock and applied in a loop,
\* with no test that the transaction is the log's only owner.
CommitGraphShared(g, hasGuard, soleOwner, isPoisoned, ops) ==
    IF ~hasGuard THEN g ELSE ApplyAll(g, ops)

\* Background::commit, the Graph it leaves: untouched without a guard, with the
\* log's Arc still shared, or with a poisoned log; otherwise what draining leaves.
CommitGraph(g, hasGuard, soleOwner, isPoisoned, ops) ==
    IF ~hasGuard THEN g
    ELSE IF ~soleOwner THEN g
    ELSE IF isPoisoned THEN g
    ELSE DrainLog(g, ops)

\* Background::commit, what it reports (tracing::error!, or nothing when it
\* reaches the drain).
CommitEvent(hasGuard, soleOwner, isPoisoned) ==
    IF ~hasGuard THEN "uninitialized"
    ELSE IF ~soleOwner THEN "in_use"
    ELSE IF isPoisoned THEN "poisoned"
    ELSE "drained"

\* The transaction is the only holder of its log's Arc: Arc::into_inner succeeds.
SoleOwner(t, s) == contexts[t][s] = 0

\* Mutant of BackgroundCommit: a refused commit handing the transaction back, its
\* guard and log kept until a later commit.
BackgroundCommitKeepsRefused(t) ==
    /\ txState[t] = "live"
    /\ waiting[t] = 0
    /\ ~fgOpen[t]
    /\ graph' = CommitGraph(graph, guard[t], SoleOwner(t, "bg"), poisoned[t]["bg"],
                            operations[t]["bg"])
    /\ last' = Ended("Background::commit", t,
                      CommitEvent(guard[t], SoleOwner(t, "bg"), poisoned[t]["bg"]),
                      Len(operations[t]["bg"]))
    /\ IF guard[t] /\ ~SoleOwner(t, "bg")
       THEN UNCHANGED <<holder, guard, txState, operations, contexts, issued, poisoned>>
       ELSE /\ holder' = Released(holder, guard[t])
            /\ guard' = [guard EXCEPT ![t] = FALSE]
            /\ txState' = [txState EXCEPT ![t] = "committed"]
            /\ operations' = [operations EXCEPT ![t] = EmptyLogs]
            /\ contexts' = [contexts EXCEPT ![t] = NoContexts]
            /\ issued' = [issued EXCEPT ![t] = <<>>]
            /\ poisoned' = [poisoned EXCEPT ![t] = NotPoisoned]
    /\ UNCHANGED <<waiting, fgOpen, graph0>>
    /\ UNCHANGED outerVars

\* Background::commit(self): consumes the transaction whatever it does to the
\* Graph; the guard it took out of the OnceLock is released on return. A
\* Foreground borrowing a Context of the transaction has to be out of use.
BackgroundCommit(t) ==
    /\ txState[t] = "live"
    /\ waiting[t] = 0
    /\ ~fgOpen[t]
    /\ graph' = CommitGraph(graph, guard[t], SoleOwner(t, "bg"), poisoned[t]["bg"],
                            operations[t]["bg"])
    /\ last' = Ended("Background::commit", t,
                      CommitEvent(guard[t], SoleOwner(t, "bg"), poisoned[t]["bg"]),
                      Len(operations[t]["bg"]))
    /\ holder' = Released(holder, guard[t])
    /\ guard' = [guard EXCEPT ![t] = FALSE]
    /\ txState' = [txState EXCEPT ![t] = "committed"]
    /\ operations' = [operations EXCEPT ![t] = EmptyLogs]
    /\ contexts' = [contexts EXCEPT ![t] = NoContexts]
    /\ issued' = [issued EXCEPT ![t] = <<>>]
    /\ poisoned' = [poisoned EXCEPT ![t] = NotPoisoned]
    /\ UNCHANGED <<waiting, fgOpen, graph0>>
    /\ UNCHANGED outerVars

\* Mutant of DropGraph: a drop that applies the log like a commit.
DropGraphApply(g, ops) == ApplyAll(g, ops)

\* Dropping a Background: it has no Drop impl, its fields are dropped in turn
\* (the write guard is released, the log discarded); the Graph is not touched.
DropGraph(g, ops) == g

BackgroundDrop(t) ==
    /\ txState[t] = "live"
    /\ waiting[t] = 0
    /\ ~fgOpen[t]
    /\ graph' = DropGraph(graph, operations[t]["bg"])
    /\ last' = Ended("Background::drop", t, "dropped", Len(operations[t]["bg"]))
    /\ holder' = Released(holder, guard[t])
    /\ guard' = [guard EXCEPT ![t] = FALSE]
    /\ txState' = [txState EXCEPT ![t] = "dropped"]
    /\ operations' = [operations EXCEPT ![t] = EmptyLogs]
    /\ contexts' = [contexts EXCEPT ![t] = NoContexts]
    /\ issued' = [issued EXCEPT ![t] = <<>>]
    /\ poisoned' = [poisoned EXCEPT ![t] = NotPoisoned]
    /\ UNCHANGED <<waiting, fgOpen, graph0>>
    /\ UNCHANGED outerVars

\* ------------------------------------------------------------ Foreground
\* Context::transaction / From<&Context>: a Foreground with an empty log of its own.
ContextTransaction(t) ==
    /\ Usable(t, "bg")
    /\ ~fgOpen[t]
    /\ fgOpen' = [fgOpen EXCEPT ![t] = TRUE]
    /\ operations' = [operations EXCEPT ![t]["fg"] = <<>>]
    /\ contexts' = [contexts EXCEPT ![t]["fg"] = 0]
    /\ last' = NoCall
    /\ poisoned' = [poisoned EXCEPT ![t]["fg"] = FALSE]
    /\ UNCHANGED <<graph, holder, txState, guard, waiting, graph0, issued>>
    /\ UNCHANGED outerVars

\* Foreground::begin: a Context on the parent's graph and schema, sharing the
\* Foreground's own log.
ForegroundBegin(t) ==
    /\ txState[t] = "live"
    /\ fgOpen[t]
    /\ contexts[t]["fg"] < MaxCtx
    /\ contexts' = [contexts EXCEPT ![t]["fg"] = @ + 1]
    /\ last' = NoCall
    /\ UNCHANGED <<graph, holder, txState, guard, waiting, operations, poisoned,
                   fgOpen, graph0, issued>>
    /\ UNCHANGED outerVars

\* Mutant of MergeLog: the parent's log assigned instead of extended.
MergeLogAssign(upstream_ops, ops, soleOwner, isPoisoned, upstreamPoisoned) ==
    IF ~soleOwner THEN upstream_ops
    ELSE IF isPoisoned THEN upstream_ops
    ELSE IF upstreamPoisoned THEN upstream_ops
    ELSE ops

\* Mutant of MergeLog: the merge without the Arc::into_inner check, the
\* Foreground's log appended also while a nested Context still shares it.
MergeLogShared(upstream_ops, ops, soleOwner, isPoisoned, upstreamPoisoned) ==
    IF isPoisoned THEN upstream_ops
    ELSE IF upstreamPoisoned THEN upstream_ops
    ELSE upstream_ops \o ops

\* Mutant of MergeLog: a poisoned parent log recovered like everywhere else, the
\* Foreground's log appended onto it.
MergeLogRecover(upstream_ops, ops, soleOwner, isPoisoned, upstreamPoisoned) ==
    IF ~soleOwner THEN upstream_ops
    ELSE IF isPoisoned THEN upstream_ops
    ELSE upstream_ops \o ops

\* Mutant of MergeLog: the Foreground's operations placed ahead of the parent's,
\* as if ordered by the time the Foreground was created.
MergeLogAhead(upstream_ops, ops, soleOwner, isPoisoned, upstreamPoisoned) ==
    IF ~soleOwner THEN upstream_ops
    ELSE IF isPoisoned THEN upstream_ops
    ELSE IF upstreamPoisoned THEN upstream_ops
    ELSE ops \o upstream_ops

\* Foreground::commit, the parent Context's log it leaves: unchanged when the
\* Foreground's log is still shared or poisoned, or the parent's lock is
\* poisoned; otherwise extended with the Foreground's log.
MergeLog(upstream_ops, ops, soleOwner, isPoisoned, upstreamPoisoned) ==
    IF ~soleOwner THEN upstream_ops
    ELSE IF isPoisoned THEN upstream_ops
    ELSE IF upstreamPoisoned THEN upstream_ops
    ELSE upstream_ops \o ops

\* Foreground::commit, what it reports.
MergeEvent(soleOwner, isPoisoned, upstreamPoisoned) ==
    IF ~soleOwner THEN "in_use"
    ELSE IF isPoisoned THEN "poisoned"
    ELSE IF upstreamPoisoned THEN "poisoned_context"
    ELSE "merged"

\* Foreground::commit(self): consumes the Foreground.
ForegroundCommit(t) ==
    /\ txState[t] = "live"
    /\ fgOpen[t]
    /\ operations' = [operations EXCEPT
            ![t]["bg"] = MergeLog(@, operations[t]["fg"], SoleOwner(t, "fg"),
                                  poisoned[t]["fg"], poisoned[t]["bg"]),
            ![t]["fg"] = <<>>]
    /\ last' = Ended("Foreground::commit", t,
                      MergeEvent(SoleOwner(t, "fg"), poisoned[t]["fg"], poisoned[t]["bg"]),
                      Len(operations[t]["fg"]))
    /\ fgOpen' = [fgOpen EXCEPT ![t] = FALSE]
    /\ contexts' = [contexts EXCEPT ![t]["fg"] = 0]
    /\ issued' = IF MergeEvent(SoleOwner(t, "fg"), poisoned[t]["fg"], poisoned[t]["bg"]) = "merged"
                 THEN [issued EXCEPT ![t] = @ \o operations[t]["fg"]]
                 ELSE issued
    /\ poisoned' = [poisoned EXCEPT ![t]["fg"] = FALSE]
    /\ UNCHANGED <<graph, holder, txState, guard, waiting, graph0>>
    /\ UNCHANGED outerVars

\* Mutant of DropLog: a drop that merges like commit.
DropLogMerge(upstream_ops, ops) == upstream_ops \o ops

\* Dropping a Foreground without committing: its log is discarded.
DropLog(upstream_ops, ops) == upstream_ops

ForegroundDrop(t) ==
    /\ txState[t] = "live"
    /\ fgOpen[t]
    /\ operations' = [operations EXCEPT
            ![t]["bg"] = DropLog(@, operations[t]["fg"]),
            ![t]["fg"] = <<>>]
    /\ last' = Ended("Foreground::drop", t, "dropped", Len(operations[t]["fg"]))
    /\ fgOpen' = [fgOpen EXCEPT ![t] = FALSE]
    /\ contexts' = [contexts EXCEPT ![t]["fg"] = 0]
    /\ poisoned' = [poisoned EXCEPT ![t]["fg"] = FALSE]
    /\ UNCHANGED <<graph, holder, txState, guard, waiting, graph0, issued>>
    /\ UNCHANGED outerVars

\* ------------------------------------------------------------- poisoning
\* A push that panics inside Vec::push (capacity overflow) while Context::save or
\* Context::delete holds the log's write lock: the lock is poisoned, the log is
\* as it was.
PushPanics(t, s) ==
    /\ Usable(t, s)
    /\ ~poisoned[t][ContextLog(s)]
    /\ poisoned' = [poisoned EXCEPT ![t][ContextLog(s)] = TRUE]
    /\ last' = NoCall
    /\ UNCHANGED <<graph, holder, txState, guard, waiting, operations, contexts,
                   fgOpen, graph0, issued>>
    /\ UNCHANGED outerVars

\* ---------------------------------------------------------- specification
Next ==
    \/ \E t \in Txs : BackgroundBegin(t)
    \/ \E t \in Txs : BackgroundBeginResume(t)
    \/ \E t \in Txs : BackgroundCommit(t)
    \/ \E t \in Txs : BackgroundDrop(t)
    \/ \E t \in Txs, s \in Scopes, n \in Nodes : ContextSave(t, s, n)
    \/ \E t \in Txs, s \in Scopes, i \in Ids : ContextDelete(t, s, i)
    \/ \E t \in Txs, s \in Scopes : ContextDrop(t, s)
    \/ \E t \in Txs : ContextTransaction(t)
    \/ \E t \in Txs : ForegroundBegin(t)
    \/ \E t \in Txs : ForegroundCommit(t)
    \/ \E t \in Txs : ForegroundDrop(t)

Spec == Init /\ [][Next]_vars

\* The same transitions under the scheduling the locks give: a begin() call that
\* is blocked and can be granted the guard is eventually granted it.
FairSpec == Init /\ [][Next]_vars /\ \A t \in Txs : WF_vars(BackgroundBeginResume(t))

\* The transitions with pushes that may panic under the write lock.
PoisonNext ==
    \/ Next
    \/ \E t \in Txs, s \in Scopes : PushPanics(t, s)

PoisonSpec == Init /\ [][PoisonNext]_vars

\* ------------------------------------------- Contexts on several threads
\* The Background whose Contexts the threads use, one Context each.
SharedTx == 1

\* The state after SharedTx.begin() has returned one Context per thread.
SharedInit ==
    /\ graph \in GraphSeeds
    /\ graph0 = graph
    /\ holder = SharedTx
    /\ txState = [t \in Txs |-> "live"]
    /\ guard = [t \in Txs |-> t = SharedTx]
    /\ waiting = [t \in Txs |-> 0]
    /\ operations = [t \in Txs |-> EmptyLogs]
    /\ poisoned = [t \in Txs |-> NotPoisoned]
    /\ contexts = [t \in Txs |-> IF t = SharedTx THEN [bg |-> NumThreads, fg |-> 0]
                                 ELSE NoContexts]
    /\ fgOpen = [t \in Txs |-> FALSE]
    /\ last = NoCall
    /\ issued = [t \in Txs |-> <<>>]
    /\ ThreadInit
    /\ ResourceInit
    /\ ChainInit
    /\ CloserInit
    /\ RepoInit
    /\ SaveInit

\* What a step of a thread inside save/delete leaves alone.
threadFrame == <<graph, holder, txState, guard, waiting, poisoned, contexts, fgOpen,
                 last, graph0, resourceVars, chainVars, closerVars, repoVars, saveVars>>

\* Calls in flight on the shared log.
InFlight == Cardinality({c \in Threads : thread[c].pc # "idle"})

\* Context::save on thread c's Context: the call goes for the write lock of the
\* log (`self.operations.write()`) with Operation::Save(node) to push.
ThreadSave(c, node) ==
    /\ Usable(SharedTx, "bg")
    /\ thread[c].pc = "idle"
    /\ Len(operations[SharedTx][ContextLog("bg")]) + InFlight < MaxLog
    /\ thread' = [thread EXCEPT ![c] = [pc |-> "write", op |-> Some(Save(node)), len |-> 0]]
    /\ UNCHANGED <<lock, sent, origin, operations, issued, threadFrame>>

\* Context::delete on thread c's Context, with Operation::Delete(node_id) to push.
ThreadDelete(c, node_id) ==
    /\ Usable(SharedTx, "bg")
    /\ thread[c].pc = "idle"
    /\ Len(operations[SharedTx][ContextLog("bg")]) + InFlight < MaxLog
    /\ thread' = [thread EXCEPT ![c] = [pc |-> "write", op |-> Some(Delete(node_id)),
                                        len |-> 0]]
    /\ UNCHANGED <<lock, sent, origin, operations, issued, threadFrame>>

\* Mutant of ThreadLock: a shared lock taken (`read()`), granted while another
\* thread is inside its push.
ThreadLockShared(c) ==
    /\ thread[c].pc = "write"
    /\ lock' = c
    /\ thread' = [thread EXCEPT ![c].pc = "locked"]
    /\ UNCHANGED <<sent, origin, operations, issued, threadFrame>>

\* `self.operations.write()` returns the guard: the lock is exclusive, the call
\* waits while another thread holds it.
ThreadLock(c) ==
    /\ thread[c].pc = "write"
    /\ lock = 0
    /\ lock' = c
    /\ thread' = [thread EXCEPT ![c].pc = "locked"]
    /\ UNCHANGED <<sent, origin, operations, issued, threadFrame>>

\* `guard.push(op)`, first half: Vec::push reads the length of the log.
ThreadPushLen(c) ==
    /\ thread[c].pc = "locked"
    /\ thread' = [thread EXCEPT ![c].pc = "push",
                                ![c].len = Len(operations[SharedTx][ContextLog("bg")])]
    /\ UNCHANGED <<lock, sent, origin, operations, issued, threadFrame>>

\* `guard.push(op)`, second half: the operation is written at the length read and
\* the length set to one more; the call returns and its guard is dropped.
ThreadPushWrite(c) ==
    /\ thread[c].pc = "push"
    /\ operations' = [operations EXCEPT ![SharedTx][ContextLog("bg")] =
                         Push(SubSeq(@, 1, thread[c].len), thread[c].op[1])]
    /\ issued' = [issued EXCEPT ![SharedTx] = operations'[SharedTx][ContextLog("bg")]]
    /\ origin' = Append(SubSeq(origin, 1, thread[c].len), c)
    /\ sent' = [sent EXCEPT ![c] = Append(@, thread[c].op[1])]
    /\ lock' = 0
    /\ thread' = [thread EXCEPT ![c] = IdleThread]
    /\ UNCHANGED threadFrame

SharedNext ==
    \/ \E c \in Threads, n \in Nodes : ThreadSave(c, n)
    \/ \E c \in Threads, i \in Ids : ThreadDelete(c, i)
    \/ \E c \in Threads : ThreadLock(c)
    \/ \E c \in Threads : ThreadPushLen(c)
    \/ \E c \in Threads : ThreadPushWrite(c)

SharedSpec == SharedInit /\ [][SharedNext]_vars

\* --------------------------------------------------------------- Resource
\* What a run on the Resource leaves alone.
resourceFrame == <<txVars, threadVars, chainVars, closerVars, repoVars, saveVars>>

\* Runs with a call to AddEntity::execute under way.
Running == Cardinality({a \in Runs : runs[a].pc \in {"begin", "held", "pushed"}})

\* AddEntity::execute, up to `event_tx.begin()`: the entity and the event's
\* Resource are found, and the run goes for the Resource.
AddEntityExecute(a, entity) ==
    /\ runs[a].pc \in {"idle", "done", "dropped"}
    /\ Len(committed) + Running < MaxListed
    /\ runs' = [runs EXCEPT ![a] = [pc |-> "begin", entity |-> entity,
                                    data |-> <<>>, orig |-> <<>>]]
    /\ UNCHANGED <<mu, muLock, committed, resourceFrame>>

\* Mutant of ResourceBegin: the guard handed out without waiting for the Mutex.
ResourceBeginNoWait(a) ==
    /\ runs[a].pc = "begin"
    /\ muLock' = a
    /\ runs' = [runs EXCEPT ![a].pc = "held", ![a].data = mu, ![a].orig = mu]
    /\ UNCHANGED <<mu, committed, resourceFrame>>

\* Resource::begin: `self.mu.lock()` blocks until the Mutex is free; the guard
\* holds the MutexGuard and a clone of the value.
ResourceBegin(a) ==
    /\ runs[a].pc = "begin"
    /\ muLock = 0
    /\ muLock' = a
    /\ runs' = [runs EXCEPT ![a].pc = "held", ![a].data = mu, ![a].orig = mu]
    /\ UNCHANGED <<mu, committed, resourceFrame>>

\* Mutant of GuardPush: AsMut handing out the value behind the MutexGuard.
GuardPushThrough(a) ==
    /\ runs[a].pc = "held"
    /\ runs' = [runs EXCEPT ![a].pc = "pushed", ![a].data = Append(@, runs[a].entity)]
    /\ mu' = Append(mu, runs[a].entity)
    /\ UNCHANGED <<muLock, committed, resourceFrame>>

\* `event.as_mut().entities.push(entity.id())`: AsMut hands out the guard's copy.
GuardPush(a) ==
    /\ runs[a].pc = "held"
    /\ runs' = [runs EXCEPT ![a].pc = "pushed", ![a].data = Append(@, runs[a].entity)]
    /\ UNCHANGED <<mu, muLock, committed, resourceFrame>>

\* TxGuard::commit: `*self.guard = self.data`, then the guard is dropped.
GuardCommit(a) ==
    /\ runs[a].pc = "pushed"
    /\ mu' = runs[a].data
    /\ muLock' = 0
    /\ committed' = Append(committed, runs[a].entity)
    /\ runs' = [runs EXCEPT ![a].pc = "done", ![a].data = <<>>, ![a].orig = <<>>]
    /\ UNCHANGED resourceFrame

\* A ResourceGuard dropped without commit: its MutexGuard is released, its copy
\* discarded.
GuardDrop(a) ==
    /\ runs[a].pc \in {"held", "pushed"}
    /\ muLock' = 0
    /\ runs' = [runs EXCEPT ![a].pc = "dropped", ![a].data = <<>>, ![a].orig = <<>>]
    /\ UNCHANGED <<mu, committed, resourceFrame>>

ResourceNext ==
    \/ \E a \in Runs, e \in Entities : AddEntityExecute(a, e)
    \/ \E a \in Runs : ResourceBegin(a)
    \/ \E a \in Runs : GuardPush(a)
    \/ \E a \in Runs : GuardCommit(a)
    \/ \E a \in Runs : GuardDrop(a)

ResourceSpec == Init /\ [][ResourceNext]_vars

\* ------------------------------------------------- the constraint chain
\* Bounds of the chain.
MaxChain == 3   \* links chained onto the default chain
NumErrors == 2  \* distinct errors a constraint may return

\* What a constraint answers to an experienced event: 0 for Ok, an error otherwise.
Answers == 0..NumErrors

\* What the chain leaves alone.
chainFrame == <<txVars, threadVars, resourceVars, closerVars, repoVars, saveVars>>

\* An Error other than Error::Stack, and Error::Stack(errs).
Simple(e) == [stack |-> FALSE, errs |-> <<e>>]
Stack(errs) == [stack |-> TRUE, errs |-> errs]

\* Error::push with the tail's errors put before the head's.
ErrorPushTailFirst(head, tail) ==
    Stack(tail.errs \o head.errs)

\* Error::push: one Error::Stack holding the head's errors, then the tail's.
ErrorPush(head, tail) ==
    Stack(CASE head.stack /\ tail.stack -> head.errs \o tail.errs
            [] head.stack /\ ~tail.stack -> Append(head.errs, tail.errs[1])
            [] ~head.stack /\ tail.stack -> <<head.errs[1]>> \o tail.errs
            [] OTHER -> <<head.errs[1], tail.errs[1]>>)

\* The closure evaluate_head of LiFoConstraintChain::with, given what the head's
\* `with` returned: the error the link returns, None for Ok.
EvaluateHead(head_error, tail_error) ==
    IF head_error = None THEN tail_error
    ELSE IF tail_error # None THEN Some(ErrorPush(head_error[1], tail_error[1]))
    ELSE head_error

\* LiFoConstraintChain::with on the k-th link of chain c, the constraints answering
\* `answers`: the error returned (None for Ok) and the links whose constraint has
\* been evaluated. Link 0 is the default chain: no head, an InfalibleContraint.
RECURSIVE WithNode(_, _, _)
WithNode(c, answers, k) ==
    IF k = 0 THEN [error |-> None, evaluated |-> {}]
    ELSE IF answers[k] # 0 /\ c[k].early
         THEN [error |-> Some(Simple(answers[k])), evaluated |-> {k}]
         ELSE LET head == WithNode(c, answers, k - 1)
                  tail_error == IF answers[k] = 0 THEN None
                                ELSE Some(Simple(answers[k]))
              IN  [error |-> EvaluateHead(head.error, tail_error),
                   evaluated |-> head.evaluated \cup {k}]

\* The `early` flag of the whole chain: that of its outermost link.
ChainEarly == IF chain = <<>> THEN baseEarly ELSE chain[Len(chain)].early

\* LiFoConstraintChain::with_early: sets the flag of the outermost link only.
ChainWithEarly(enable) ==
    /\ IF chain = <<>>
       THEN baseEarly' = enable /\ chain' = chain
       ELSE chain' = [chain EXCEPT ![Len(chain)].early = enable]
            /\ baseEarly' = baseEarly
    /\ verdict' = None
    /\ UNCHANGED chainFrame

\* LiFoConstraintChain::chain: the new link takes the chain as its head and
\* copies the chain's `early`.
ChainLink ==
    /\ Len(chain) < MaxChain
    /\ chain' = Append(chain, [early |-> ChainEarly])
    /\ verdict' = None
    /\ UNCHANGED <<baseEarly, chainFrame>>

\* LiFoConstraintChain::with on the whole chain, for an experienced event the
\* constraints answer with `answers`.
ChainWith(answers) ==
    /\ verdict' = Some([answers |-> answers] @@ WithNode(chain, answers, Len(chain)))
    /\ UNCHANGED <<chain, baseEarly, chainFrame>>

ChainNext ==
    \/ \E enable \in BOOLEAN : ChainWithEarly(enable)
    \/ ChainLink
    \/ \E answers \in [1..Len(chain) -> Answers] : ChainWith(answers)

ChainSpec == Init /\ [][ChainNext]_vars

\* ------------------------------------------- the closer experiences
\* Bounds of the selection.
MaxTime == 2  \* instants 0..MaxTime
MaxIter == 2  \* experienced events yielded by one iterator

\* The intervals of events: bounds lo <= hi.
Intervals == {iv \in [lo : 0..MaxTime, hi : 0..MaxTime] : iv.lo <= iv.hi}

\* The iterators handed to with_iter: the experienced events they yield, each
\* standing for the interval of its event.
Iterators == UNION {[1..n -> Intervals] : n \in 0..MaxIter}

\* What the selection leaves alone.
closerFrame == <<txVars, threadVars, resourceVars, chainVars, repoVars, saveVars>>

\* The order of experienced events: that of their events' intervals, by lower
\* bound and then by higher bound.
ItemLe(a, b) == a.lo < b.lo \/ (a.lo = b.lo /\ a.hi <= b.hi)

\* The order of Option: None is below every Some, two Some compare their values.
OptionLe(a, b) == a = None \/ (b # None /\ ItemLe(a[1], b[1]))

\* std::cmp::max and std::cmp::min: of two equal values max hands back the
\* second and min the first.
CmpMax(a, b) == IF OptionLe(a, b) THEN b ELSE a
CmpMin(a, b) == IF OptionLe(a, b) THEN a ELSE b

\* SelectCloserExperiences::with on the selection sel of subject event ev.
CloserWith(ev, sel, item) ==
    IF item.hi < ev.lo THEN [sel EXCEPT !.before = CmpMax(sel.before, Some(item))]
    ELSE IF item.lo > ev.hi THEN [sel EXCEPT !.after = CmpMin(sel.after, Some(item))]
    ELSE sel

\* SelectCloserExperiences::with_iter: `with` folded over the iterator.
RECURSIVE CloserWithIter(_, _, _)
CloserWithIter(ev, sel, iter) ==
    IF iter = <<>> THEN sel
    ELSE CloserWithIter(ev, CloserWith(ev, sel, Head(iter)), Tail(iter))

\* SelectCloserExperiences::from_builder: the builder's event, nothing selected.
SelectFromBuilder(ev) ==
    /\ subject' = Some(ev)
    /\ before' = None
    /\ after' = None
    /\ consumed' = {}
    /\ UNCHANGED closerFrame

\* SelectCloserExperiences::with_iter consuming one iterator.
SelectWithIter(iter) ==
    /\ subject # None
    /\ LET sel == CloserWithIter(subject[1], [before |-> before, after |-> after], iter)
       IN  /\ before' = sel.before
           /\ after' = sel.after
    /\ consumed' = consumed \cup {iter[i] : i \in DOMAIN iter}
    /\ UNCHANGED <<subject, closerFrame>>

CloserNext ==
    \/ \E ev \in Intervals : SelectFromBuilder(ev)
    \/ \E iter \in Iterators : SelectWithIter(iter)

CloserSpec == Init /\ [][CloserNext]_vars

\* ------------------------------------------------ the event repository
\* Bound of the repository.
NumNames == 2  \* event contents 1..NumNames

\* What tells two events of one id apart.
Names == 1..NumNames

\* What the repository leaves alone.
repoFrame == <<txVars, threadVars, resourceVars, chainVars, closerVars, saveVars>>

\* `events.contains_key(&id)`.
ContainsKey(id) == events[id] # 0

\* A create that inserts without looking for the key first.
RepoCreateOverwrite(id, name) ==
    /\ events' = [events EXCEPT ![id] = name]
    /\ createdIds' = createdIds \cup {id}
    /\ reply' = [call |-> "create", id |-> id, result |-> "Ok", name |-> name]
    /\ UNCHANGED repoFrame

\* InMemoryEventRepository::create of an event with the given id and content.
RepoCreate(id, name) ==
    /\ IF ContainsKey(id)
       THEN /\ reply' = [call |-> "create", id |-> id, result |-> "AlreadyExists",
                         name |-> name]
            /\ UNCHANGED <<events, createdIds>>
       ELSE /\ events' = [events EXCEPT ![id] = name]
            /\ createdIds' = createdIds \cup {id}
            /\ reply' = [call |-> "create", id |-> id, result |-> "Ok", name |-> name]
    /\ UNCHANGED repoFrame

\* InMemoryEventRepository::find: the stored event, or NotFound.
RepoFind(id) ==
    /\ reply' = IF ContainsKey(id)
                THEN [call |-> "find", id |-> id, result |-> "Ok", name |-> events[id]]
                ELSE [call |-> "find", id |-> id, result |-> "NotFound", name |-> 0]
    /\ UNCHANGED <<events, createdIds, repoFrame>>

RepoNext ==
    \/ \E id \in EventIds, name \in Names : RepoCreate(id, name)
    \/ \E id \in EventIds : RepoFind(id)

RepoSpec == Init /\ [][RepoNext]_vars

\* ------------------------------------------------ saving an experience
\* What SaveExperience leaves alone.
saveFrame == <<txVars, threadVars, resourceVars, chainVars, closerVars, repoVars>>

\* The run holds the entity: from `entity_tx.begin()` until create returns.
HoldsEntity(a) == run[a].pc \in {"check", "acquire", "deadlock"}

\* The orders in which `experience_repo.filter` may list the experiences of the
\* entity, each experience standing for its event.
Listings ==
    {f \in [1..Cardinality(experiences) -> experiences] :
        \A i, j \in DOMAIN f : i # j => f[i] # f[j]}

\* SaveExperience::execute: the experiences of the entity and the event are
\* listed; none leads to create, one to update, which returns Ok.
SaveExecute(a, ev) ==
    /\ run[a].pc \in {"idle", "done"}
    /\ run' = [run EXCEPT ![a] =
                IF ev \in experiences
                THEN [IdleSave EXCEPT !.pc = "done", !.target = ev, !.result = "Ok"]
                ELSE [IdleSave EXCEPT !.pc = "create", !.target = ev]]
    /\ UNCHANGED <<experiences, saveFrame>>

\* SaveExperience::create up to the listing of the entity's experiences: the
\* entity is begun, which waits for a run holding it, then the target event, then
\* every experience the entity has.
SaveCreateEnter(a) ==
    /\ run[a].pc = "create"
    /\ \A b \in SaveRuns : ~HoldsEntity(b)
    /\ \E todo \in Listings :
        run' = [run EXCEPT ![a].pc = "check", ![a].held = {run[a].target},
                           ![a].begun = <<run[a].target>>, ![a].todo = todo]
    /\ UNCHANGED <<experiences, saveFrame>>

\* create going on to the events of the experiences without looking for the
\* target event among them.
SaveCheckSkipped(a) ==
    /\ run[a].pc = "check"
    /\ run' = [run EXCEPT ![a].pc = "acquire"]
    /\ UNCHANGED <<experiences, saveFrame>>

\* `if experiences.iter().any(|experience| experience.event == event.id())`:
\* create returns EventAlreadyExperienced, dropping what it holds.
SaveCheck(a) ==
    /\ run[a].pc = "check"
    /\ IF \E i \in DOMAIN run[a].todo : run[a].todo[i] = run[a].target
       THEN run' = [run EXCEPT ![a].pc = "done", ![a].held = {}, ![a].todo = <<>>,
                               ![a].result = "EventAlreadyExperienced"]
       ELSE run' = [run EXCEPT ![a].pc = "acquire"]
    /\ UNCHANGED <<experiences, saveFrame>>

\* Tx::begin on the event of the next listed experience: an event the run holds
\* already is never handed out.
SaveBeginEvent(a) ==
    /\ run[a].pc = "acquire"
    /\ run[a].todo # <<>>
    /\ LET ev == Head(run[a].todo)
       IN  IF ev \in run[a].held
           THEN run' = [run EXCEPT ![a].pc = "deadlock", ![a].begun = Append(@, ev)]
           ELSE run' = [run EXCEPT ![a].held = @ \cup {ev},
                                   ![a].begun = Append(@, ev), ![a].todo = Tail(@)]
    /\ UNCHANGED <<experiences, saveFrame>>

\* The end of create: domain::create accepts the experience or not, an accepted
\* one is handed to `experience_repo.create`, and everything held is dropped.
SaveCreateEnd(a, accepted) ==
    /\ run[a].pc = "acquire"
    /\ run[a].todo = <<>>
    /\ experiences' = IF accepted THEN experiences \cup {run[a].target} ELSE experiences
    /\ run' = [run EXCEPT ![a].pc = "done", ![a].held = {},
                          ![a].result = IF accepted THEN "Ok" ELSE "Rejected"]
    /\ UNCHANGED saveFrame

SaveNext ==
    \/ \E a \in SaveRuns, ev \in EventIds : SaveExecute(a, ev)
    \/ \E a \in SaveRuns : SaveCreateEnter(a)
    \/ \E a \in SaveRuns : SaveCheck(a)
    \/ \E a \in SaveRuns : SaveBeginEvent(a)
    \/ \E a \in SaveRuns, accepted \in BOOLEAN : SaveCreateEnd(a, accepted)

SaveSpec == Init /\ [][SaveNext]_vars

\* ================================================================ claims
\* Indices of the operations of a log whose identity is id.
Matching(ops, id) == {i \in DOMAIN ops : OpId(ops[i]) = id}

\* The greatest element of a non-empty set of integers.
Greatest(S) == CHOOSE i \in S : \A j \in S : j <= i

\* C1: for every log built by save/delete calls and every id, Context.get(id)
\* is the payload of the last operation in the log whose identity is id (the
\* saved value for a Save, nothing for a Delete), and the Graph's own value for
\* id when no operation of the log matches.
C1_GetLastWins ==
    \A t \in Txs, s \in Scopes, id \in Ids :
        LET ops == operations[t][s]
            m == Matching(ops, id)
        IN  IF m = {} THEN ContextGet(t, s, id) = GraphGet(graph, id)
            ELSE IF ops[Greatest(m)].kind = "Save"
                 THEN ContextGet(t, s, id) = Some(OpNode(ops[Greatest(m)]))
                 ELSE ContextGet(t, s, id) = None

\* A Context whose log holds two different operations on one id, the later one
\* deciding the read, and no operation on another id the Graph holds.
C1_Witness ==
    \E t \in Txs, id \in Ids, other \in Ids :
        LET ops == operations[t]["bg"] IN
        /\ Usable(t, "bg")
        /\ \E i \in Matching(ops, id), j \in Matching(ops, id) :
              /\ i < j
              /\ ops[i] # ops[j]
              /\ get(<<ops[i]>>, graph, id) # ContextGet(t, "bg", id)
        /\ Matching(ops, other) = {}
        /\ GraphContains(graph, other)
        /\ ContextGet(t, "bg", other) = GraphGet(graph, other)

\* The step is Background t's commit() call.
CommitStep(t) == txState[t] = "live" /\ txState'[t] = "committed"

\* commit() of Background t passes its checks: the guard was acquired, the
\* transaction is the sole owner of its log, and the log is not poisoned.
CommitPasses(t) == guard[t] /\ SoleOwner(t, "bg") /\ ~poisoned[t]["bg"]

\* C2: a commit() on a Background transaction whose guard was acquired and that
\* is the sole owner of its log leaves the Graph equal to the Graph before with
\* every logged operation applied in append order (Save as insert, Delete as
\* removal); so begin, save(A), commit over an empty Schema leaves A in the Graph.
C2_CommitAppliesLog ==
    [][\A t \in Txs :
         (CommitStep(t) /\ CommitPasses(t))
            => graph' = ApplyAll(graph, operations[t]["bg"])]_vars

\* A Background transaction holds the Schema's write guard and is in use.
Active(t) == txState[t] = "live" /\ guard[t]

\* C3: at most one Background transaction is active (guard acquired, not yet
\* committed or dropped) on the Schema at any time, and while one is active no
\* other Background transaction's begin() has returned a Context.
C3_SingleWriter ==
    \A t \in Txs, u \in Txs :
        (t # u /\ Active(t)) =>
            /\ ~Active(u)
            /\ contexts[u]["bg"] = 0
            /\ holder = t

\* One transaction is active with a Context while another one's begin() is blocked.
C3_Witness ==
    \E t \in Txs, u \in Txs :
        /\ t # u
        /\ Active(t)
        /\ contexts[t]["bg"] > 0
        /\ txState[u] = "live"
        /\ waiting[u] > 0

\* C4: a Background commit is all-or-nothing: when commit() returns the Graph is
\* either exactly as it was before or has every operation of the log applied;
\* never a strict part of the log.
C4_AllOrNothing ==
    [][\A t \in Txs :
         CommitStep(t)
            => \/ graph' = graph
               \/ graph' = ApplyAll(graph, operations[t]["bg"])]_vars

\* A commit() that passed its checks has just consumed a log of several operations.
C4_Witness ==
    /\ last.call = "Background::commit"
    /\ last.result = "drained"
    /\ last.len >= 2

\* C5: commit() on a Background transaction of which a Context is still alive
\* (the transaction is not the sole owner of its log) leaves the Graph unchanged.
C5_CommitInUseNoOp ==
    [][\A t \in Txs :
         (CommitStep(t) /\ ~SoleOwner(t, "bg")) => graph' = graph]_vars

\* A commit() has just been refused because a Context still shared a non-empty log.
C5_Witness ==
    /\ last.call = "Background::commit"
    /\ last.result = "in_use"
    /\ last.len >= 1

\* The step is the commit() call of the Foreground open on Background t.
MergeStep(t) == fgOpen[t] /\ ~fgOpen'[t] /\ last'.call = "Foreground::commit"

\* commit() of that Foreground passes its checks: it is the sole owner of its
\* own log and neither that log nor the parent's is poisoned.
MergePasses(t) == SoleOwner(t, "fg") /\ ~poisoned[t]["fg"] /\ ~poisoned[t]["bg"]

\* C6: a successful Foreground.commit() leaves the parent Context's log equal
\* to its log immediately before the commit followed by the Foreground's whole
\* log in its original order.
C6_MergeAppends ==
    [][\A t \in Txs :
         (MergeStep(t) /\ MergePasses(t))
            => operations'[t]["bg"] = operations[t]["bg"] \o operations[t]["fg"]]_vars

\* A Foreground with several operations has just been merged behind operations
\* the parent log already held.
C6_Witness ==
    \E t \in Txs :
        /\ last = Ended("Foreground::commit", t, "merged", last.len)
        /\ last.len >= 2
        /\ Len(operations[t]["bg"]) > last.len

\* C7: operations issued through a nested Context of a Foreground are invisible
\* to the outer Context until the Foreground commits: at every moment the outer
\* Context's get and contains are what they would be over the operations issued
\* through the outer Contexts and the logs of the Foregrounds committed so far,
\* as if the nested operations of an uncommitted Foreground had never been
\* issued; and a successful Foreground.commit() makes the outer Context's
\* get(B.id) return Some(B) when save(B) is the Foreground's last operation on B.id.
C7_NestedInvisibleUntilCommit ==
    /\ [](\A t \in Txs, id \in Ids :
            /\ ContextGet(t, "bg", id) = get(issued[t], graph, id)
            /\ ContextContains(t, "bg", id) = contains(issued[t], graph, id))
    /\ [][\A t \in Txs :
            (MergeStep(t) /\ MergePasses(t)) =>
               \A id \in Ids :
                  LET own == operations[t]["fg"]
                      m == Matching(own, id)
                  IN  (m # {} /\ own[Greatest(m)].kind = "Save")
                         => get(operations'[t]["bg"], graph', id)
                               = Some(OpNode(own[Greatest(m)]))]_vars

\* An open Foreground holds a Save of an id the outer Context reads nothing for.
C7_Witness ==
    \E t \in Txs, n \in Nodes :
        /\ fgOpen[t]
        /\ Usable(t, "fg")
        /\ operations[t]["fg"] # <<>>
        /\ operations[t]["fg"][Len(operations[t]["fg"])] = Save(n)
        /\ ContextGet(t, "bg", n.id) = None

\* A merged Foreground made up the whole parent log, and the outer Context now
\* reads a value for an id the Graph does not hold.
C7_WitnessMerged ==
    \E t \in Txs, id \in Ids :
        /\ last = Ended("Foreground::commit", t, "merged", last.len)
        /\ last.len >= 1
        /\ Len(operations[t]["bg"]) = last.len
        /\ ~GraphContains(graph, id)
        /\ ContextGet(t, "bg", id) # None

\* The step belongs to the Foreground open on Background t and is not a
\* commit(): its creation, begin(), a nested save/delete or Context drop, its drop.
ForegroundStep(t) ==
    /\ txState[t] = "live" /\ txState'[t] = "live"
    /\ \/ fgOpen[t] # fgOpen'[t]
       \/ operations'[t]["fg"] # operations[t]["fg"]
       \/ contexts'[t]["fg"] # contexts[t]["fg"]
    /\ ~MergeStep(t)

\* C8: a Foreground dropped without commit, whatever was saved or deleted
\* through its nested Contexts, leaves the parent Context's log as it was:
\* no step of the Foreground from its creation to its drop changes that log.
C8_ForegroundDropKeepsParent ==
    [][\A t \in Txs :
         ForegroundStep(t) => operations'[t]["bg"] = operations[t]["bg"]]_vars

\* A Foreground holding operations has just been dropped on a non-empty parent log.
C8_Witness ==
    \E t \in Txs :
        /\ last = Ended("Foreground::drop", t, "dropped", last.len)
        /\ last.len >= 1
        /\ Len(operations[t]["bg"]) >= 1

\* C9: a Background dropped before commit, after any begin/save/delete and
\* nested Foreground commits, leaves the Graph as it was when the transaction
\* was created (no transaction having committed meanwhile).
C9_BackgroundDropKeepsGraph ==
    (/\ \E t \in Txs : txState[t] = "dropped"
     /\ \A t \in Txs : txState[t] # "committed")
        => graph = graph0

\* A Background holding several operations has just been dropped.
C9_Witness ==
    /\ last.call = "Background::drop"
    /\ last.len >= 2
    /\ \A t \in Txs : txState[t] # "committed"

\* C10: the Graph is changed by no step other than a Background.commit() that
\* passes its checks; in particular a delete(id) makes the Context's get(id)
\* return nothing while the Graph keeps what it held for id.
C10_OnlyCommitChangesGraph ==
    [][/\ graph' # graph => \E t \in Txs : CommitStep(t) /\ CommitPasses(t)
       /\ \A t \in Txs, s \in Scopes, id \in Ids :
            operations'[t][s] = Append(operations[t][s], Delete(id))
               => /\ get(operations'[t][s], graph', id) = None
                  /\ GraphGet(graph', id) = GraphGet(graph, id)]_vars

\* A Context saved a value for an id and then deleted it: it reads nothing for
\* the id, which the Graph still holds.
C10_Witness ==
    \E t \in Txs, n \in Nodes :
        /\ Usable(t, "bg")
        /\ operations[t]["bg"] = <<Save(n), Delete(n.id)>>
        /\ ContextGet(t, "bg", n.id) = None
        /\ GraphContains(graph, n.id)

\* C11: in every reachable state, through every Context and for every id,
\* contains(id) is true exactly when get(id) returns a value.
C11_ContainsIffGet ==
    \A t \in Txs : \A s \in Scopes : \A id \in Ids :
        Usable(t, s) => (ContextContains(t, s, id) <=> ContextGet(t, s, id) # None)

\* A Context whose log deletes an id the Graph holds and saves an id the Graph
\* lacks: both reads are decided by the log, against the Graph.
C11_Witness ==
    \E t \in Txs : \E id1, id2 \in Ids :
        /\ Usable(t, "bg")
        /\ GraphContains(graph, id1)
        /\ ~ContextContains(t, "bg", id1)
        /\ ContextGet(t, "bg", id1) = None
        /\ ~GraphContains(graph, id2)
        /\ ContextContains(t, "bg", id2)
        /\ ContextGet(t, "bg", id2) # None

\* Every Background other than u has ended (committed or dropped).
OthersEnded(u) == \A v \in Txs \ {u} : txState[v] # "live"

\* C12: a begin() blocked because another Background holds the write guard hands
\* out no Context while it is blocked, returns only from a state in which the
\* guard is free, and, under fair scheduling, does return once the other
\* transactions have committed or been dropped.
C12_BlockedBeginReturns ==
    /\ [](\A u \in Txs : (waiting[u] > 0 /\ ~guard[u]) => contexts[u]["bg"] = 0)
    /\ [][\A u \in Txs :
            (waiting[u] > 0 /\ ~guard[u] /\ contexts'[u]["bg"] > contexts[u]["bg"])
                => SchemaFree]_vars
    /\ \A u \in Txs :
            (waiting[u] > 0 /\ OthersEnded(u)) ~> (waiting[u] = 0 /\ guard[u])

\* The holder has ended while the begin() of the other transaction is blocked.
C12_Witness ==
    \E u \in Txs :
        /\ waiting[u] > 0
        /\ ~guard[u]
        /\ OthersEnded(u)
        /\ last.call \in {"Background::commit", "Background::drop"}
        /\ last.tx # u

\* C13: a Background holds the Schema's write guard exactly when its OnceLock is
\* initialised; the guard is acquired in a begin() that finds the OnceLock empty
\* and returns the transaction's first Context, never by another step; once
\* acquired it stays until the transaction ends; every begin() that finds it
\* initialised returns its Context without blocking and without touching the
\* guard, also while other begin() calls of the transaction are in flight.
C13_GuardAcquiredOnce ==
    /\ [](\A t \in Txs : /\ guard[t] <=> holder = t
                         /\ guard[t] => txState[t] = "live"
                         /\ contexts[t]["bg"] > 0 => guard[t])
    /\ [][\A t \in Txs :
            /\ (holder' = t /\ holder # t)
                  => /\ ~guard[t]
                     /\ guard'[t]
                     /\ contexts[t]["bg"] = 0
                     /\ contexts'[t]["bg"] = 1
            /\ (guard[t] /\ ~guard'[t]) => txState'[t] # "live"
            /\ (guard[t] /\ contexts'[t]["bg"] > contexts[t]["bg"])
                  => (holder' = holder /\ waiting'[t] <= waiting[t])
            /\ waiting'[t] > waiting[t] => ~guard[t]]_vars

\* A begin() that had been blocked has acquired the guard and returned the first
\* Context while a concurrent begin() of the same transaction is still in flight.
C13_Witness ==
    \E t \in Txs : guard[t] /\ contexts[t]["bg"] = 1 /\ waiting[t] = 1

\* C14: commit() of a Background on which begin() was never called changes
\* nothing: the Graph is as before, the Schema's write guard is with whoever held
\* it before, never with the committed transaction, and the commit reports the
\* uninitialized transaction.
C14_CommitUninitializedNoOp ==
    [][\A t \in Txs :
          (CommitStep(t) /\ ~guard[t])
              => /\ graph' = graph
                 /\ holder' = holder
                 /\ holder' # t
                 /\ last'.result = "uninitialized"]_vars

\* A never-begun Background has just been committed while another transaction
\* holds the write guard and has operations logged.
C14_Witness ==
    /\ last.call = "Background::commit"
    /\ last.result = "uninitialized"
    /\ \E v \in Txs : v # last.tx /\ holder = v /\ Len(operations[v]["bg"]) > 0

\* C15: commit() of a Foreground whose log a nested Context still shares leaves
\* the parent Context's log as it was.
C15_MergeInUseNoOp ==
    [][\A t \in Txs :
          (MergeStep(t) /\ ~SoleOwner(t, "fg"))
              => /\ operations'[t]["bg"] = operations[t]["bg"]
                 /\ last'.result = "in_use"]_vars

\* A Foreground with operations logged has just been committed with a nested
\* Context alive, over a parent log that has operations of its own.
C15_Witness ==
    /\ last.call = "Foreground::commit"
    /\ last.result = "in_use"
    /\ last.len > 0
    /\ Len(operations[last.tx]["bg"]) > 0

\* What the reads and appends do on a log, poisoned or not: get/contains answer
\* from the most recent logged operation on the id, and the Background's log
\* holds every operation issued on it.
PoisonRecovered ==
    \A t \in Txs :
        /\ txState[t] = "live" => operations[t]["bg"] = issued[t]
        /\ \A s \in Scopes : \A id \in Ids :
              (Usable(t, s) /\ poisoned[t][ContextLog(s)])
                  => LET ops == operations[t][ContextLog(s)]
                         M == Matching(ops, id)
                     IN  /\ M = {} => /\ ContextGet(t, s, id) = GraphGet(graph, id)
                                      /\ ContextContains(t, s, id) = GraphContains(graph, id)
                         /\ M # {} =>
                              LET op == ops[Greatest(M)] IN
                              /\ ContextContains(t, s, id) = (op.kind = "Save")
                              /\ ContextGet(t, s, id) =
                                   IF op.kind = "Save" THEN Some(OpNode(op)) ELSE None

\* An append through a Context whose log is poisoned.
PoisonedAppend(t, s) ==
    /\ Usable(t, s)
    /\ poisoned[t][ContextLog(s)]
    /\ poisoned'[t][ContextLog(s)]
    /\ operations'[t][ContextLog(s)] # operations[t][ContextLog(s)]
    /\ last' = NoCall

\* A Foreground commit that passed its own checks onto a poisoned parent log.
MergeOntoPoisoned(t) ==
    MergeStep(t) /\ SoleOwner(t, "fg") /\ ~poisoned[t]["fg"] /\ poisoned[t]["bg"]

LogKept(t, s) ==
    /\ txState[t] = "live"
    /\ txState'[t] = "live"
    /\ s = "fg" => (fgOpen[t] /\ fgOpen'[t])

\* C18: as long as a log is neither consumed by commit nor dropped, every entry
\* it holds keeps its position and content, and each save or delete lengthens it
\* by exactly one operation placed at the end.
C18_LogAppendOnly ==
    [][\A t \in Txs : \A s \in Scopes :
          LogKept(t, s) =>
             LET ops == operations[t][s]
                 ops2 == operations'[t][s]
             IN  /\ Len(ops2) >= Len(ops)
                 /\ SubSeq(ops2, 1, Len(ops)) = ops
                 /\ (ops2 # ops /\ last' = NoCall) =>
                       /\ Len(ops2) = Len(ops) + 1
                       /\ ops2[Len(ops2)] \in Operations
                 /\ (s = "bg" /\ last' = NoCall /\ issued'[t] # issued[t]) =>
                       ops2 = Append(ops, issued'[t][Len(issued'[t])])]_vars

\* Logs of a Background and of its Foreground, each holding operations appended
\* one after another by saves and deletes.
C18_Witness ==
    \E t \in Txs :
        /\ Usable(t, "fg")
        /\ Len(operations[t]["bg"]) = 2
        /\ operations[t]["bg"][1].kind = "Save"
        /\ operations[t]["bg"][2].kind = "Delete"
        /\ Len(operations[t]["fg"]) = 1

\* The operations of ops appended by thread c, in the order they stand in ops.
RECURSIVE ByThread(_, _, _)
ByThread(ops, org, c) ==
    IF ops = <<>> \/ org = <<>> THEN <<>>
    ELSE IF Head(org) = c THEN <<Head(ops)>> \o ByThread(Tail(ops), Tail(org), c)
    ELSE ByThread(Tail(ops), Tail(org), c)

\* The lengths of the threads' call histories, summed.
RECURSIVE SentUpTo(_)
SentUpTo(c) == IF c = 0 THEN 0 ELSE Len(sent[c]) + SentUpTo(c - 1)

\* C17: with threads appending concurrently through Contexts of one Background,
\* the one shared log holds every appended operation exactly once, the entries of
\* each thread standing in that thread's call order, and an operation a thread
\* has just appended decides get/contains through the Contexts of the others.
C17_SharedLogSerialized ==
    /\ [](LET ops == operations[SharedTx][ContextLog("bg")] IN
          /\ Len(ops) = Len(origin)
          /\ Len(ops) = SentUpTo(NumThreads)
          /\ \A c \in Threads : ByThread(ops, origin, c) = sent[c])
    /\ [][\A c \in Threads :
            (thread[c].pc = "push" /\ thread'[c].pc = "idle") =>
                LET op == thread[c].op[1]
                    ops2 == operations'[SharedTx][ContextLog("bg")]
                IN  /\ contains(ops2, graph', OpId(op)) = (op.kind = "Save")
                    /\ get(ops2, graph', OpId(op)) =
                          IF op.kind = "Save" THEN Some(OpNode(op)) ELSE None]_vars

\* Two threads have appended in turn, the second between two appends of the
\* first, while the first has one more call in flight.
C17_Witness ==
    /\ Len(origin) = 3
    /\ origin[1] # origin[2]
    /\ origin[3] = origin[1]
    /\ Len(sent[origin[1]]) = 2
    /\ sent[origin[1]][1] # sent[origin[1]][2]

\* Run a has a ResourceGuard in hand.
Holds(a) == runs[a].pc \in {"held", "pushed"}

\* C19: while a ResourceGuard is held the Mutex is locked by its run and the
\* original value is what it was when the guard was obtained, whatever was
\* changed through the guard; commit makes the guard's copy the original and
\* releases the lock; dropping the guard releases the lock over the original as
\* it was.
C19_GuardWorksOnCopy ==
    /\ [](\A a \in Runs : Holds(a) => (muLock = a /\ mu = runs[a].orig))
    /\ [][\A a \in Runs :
            /\ (runs[a].pc = "held" /\ runs'[a].pc = "pushed")
                  => (mu' = mu /\ runs'[a].data # mu')
            /\ (Holds(a) /\ runs'[a].pc = "done")
                  => (mu' = runs[a].data /\ muLock' = 0)
            /\ (Holds(a) /\ runs'[a].pc = "dropped")
                  => (mu' = runs[a].orig /\ muLock' = 0)]_vars

\* A guard whose copy lists an entity the original, itself not empty, lacks.
C19_Witness ==
    \E a \in Runs :
        /\ runs[a].pc = "pushed"
        /\ Len(mu) = 1
        /\ Len(runs[a].data) = 2
        /\ runs[a].data[2] # mu[1]

\* C20: a run obtains the ResourceGuard only from a free Mutex, at most one run
\* has a guard at any time, and the event lists the entity of every completed
\* AddEntity::execute, in the order the runs committed.
C20_RunsSerialized ==
    /\ [](/\ Cardinality({a \in Runs : Holds(a)}) <= 1
          /\ mu = committed
          /\ \A a \in Runs : runs[a].pc = "done"
                => \E i \in DOMAIN mu : mu[i] = runs[a].entity)
    /\ [][\A a \in Runs : (runs[a].pc = "begin" /\ runs'[a].pc = "held")
                              => muLock = 0]_vars

\* Two runs adding different entities have both completed, the second run first,
\* and the event lists both entities.
C20_Witness ==
    /\ \A a \in Runs : runs[a].pc = "done"
    /\ runs[1].entity # runs[2].entity
    /\ mu = <<runs[2].entity, runs[1].entity>>

\* The lifecycle state of a Background: uninitialized (no write guard yet),
\* active (guard acquired), committed, dropped.
Phase(t) ==
    IF txState[t] # "live" THEN txState[t]
    ELSE IF guard[t] THEN "active"
    ELSE "uninitialized"

\* The moves of the lifecycle.
PhaseMoves ==
    {<<"uninitialized", "active">>, <<"uninitialized", "committed">>,
     <<"uninitialized", "dropped">>, <<"active", "committed">>,
     <<"active", "dropped">>}

\* C21: a Background moves only uninitialized -> active -> committed or dropped,
\* or from uninitialized straight to committed or dropped; committed and dropped
\* are terminal, and a transaction that has ended gets no Context, no blocked
\* begin(), no logged operation and no write guard, nor does the Graph change
\* in a step that is not the end of a transaction live until then.
C21_Lifecycle ==
    [][\A t \in Txs :
          /\ Phase(t)' # Phase(t) => <<Phase(t), Phase(t)'>> \in PhaseMoves
          /\ txState[t] # "live" =>
                /\ operations'[t] = EmptyLogs
                /\ contexts'[t] = NoContexts
                /\ waiting'[t] = 0
                /\ ~fgOpen'[t]
                /\ ~guard'[t]
                /\ holder' # t
          /\ graph' # graph => (last'.tx = t => txState[t] = "live")]_vars

\* One Background has been committed and the other, never begun, has just been
\* dropped: both are in a terminal state and the write guard is free.
C21_Witness ==
    \E t, u \in Txs :
        /\ txState[t] = "committed"
        /\ txState[u] = "dropped"
        /\ graph0 # EmptyGraph
        /\ last.call = "Background::drop"
        /\ last.tx = u
        /\ last.len = 0
        /\ holder = 0

\* C22: through a nested Context, an id with no operation in the Foreground's own
\* log reads as the Graph has it, whatever the parent Context's log holds on it.
C22_NestedReadsGraph ==
    \A t \in Txs : \A id \in Ids :
        (Usable(t, "fg") /\ Matching(operations[t]["fg"], id) = {})
            => /\ ContextGet(t, "fg", id) = GraphGet(graph, id)
               /\ ContextContains(t, "fg", id) = GraphContains(graph, id)

\* A nested Context is alive, its Foreground's log has nothing on two ids, and
\* the parent's log saves the one the Graph lacks and deletes the one it holds.
C22_Witness ==
    \E t \in Txs : \E id1, id2 \in Ids :
        /\ Usable(t, "fg")
        /\ Matching(operations[t]["fg"], id1) = {}
        /\ Matching(operations[t]["fg"], id2) = {}
        /\ ~GraphContains(graph, id1)
        /\ ContextContains(t, "bg", id1)
        /\ GraphContains(graph, id2)
        /\ ~ContextContains(t, "bg", id2)

\* C23: after a Foreground commit that passed its checks, the parent Context
\* reads every id the Foreground's log has an operation on as that log's last
\* operation on it leaves it, whatever the parent appended on the id before the
\* commit.
C23_MergeOrderedByCommit ==
    [][\A t \in Txs : (MergeStep(t) /\ MergePasses(t)) =>
          \A id \in Ids :
             LET ops == operations[t]["fg"]
                 M == Matching(ops, id)
                 parent == operations'[t]["bg"]
             IN  M # {} =>
                   LET op == ops[Greatest(M)] IN
                   /\ contains(parent, graph', id) = (op.kind = "Save")
                   /\ get(parent, graph', id) =
                         IF op.kind = "Save" THEN Some(OpNode(op)) ELSE None]_vars

\* A Foreground of one operation has just been merged over a parent log whose
\* own last operation on the same id leaves the id otherwise.
C23_Witness ==
    /\ last.call = "Foreground::commit"
    /\ last.result = "merged"
    /\ last.len = 1
    /\ LET ops == operations[last.tx]["bg"] IN
       /\ Len(ops) = 3
       /\ ops[2].id = ops[3].id
       /\ ops[2].kind # ops[3].kind
       /\ ops[1].id # ops[3].id

\* The step is a commit() of Background t refused because a Context is alive.
RefusedCommit(t) ==
    /\ txState[t] = "live"
    /\ guard[t]
    /\ ~SoleOwner(t, "bg")
    /\ last'.call = "Background::commit"
    /\ last'.tx = t
    /\ last'.result = "in_use"

\* C24: a commit() of a Background refused because a Context is still alive
\* leaves the Graph as it was, ends the transaction, frees the Schema's write
\* guard for the begin() of another transaction and discards the buffered
\* operations; the log of an ended transaction stays empty and the transaction
\* never holds the guard again.
C24_RefusedCommitConsumes ==
    /\ [][\A t \in Txs : RefusedCommit(t) =>
            /\ graph' = graph
            /\ txState'[t] = "committed"
            /\ SchemaFree'
            /\ ~guard'[t]
            /\ operations'[t] = EmptyLogs
            /\ contexts'[t] = NoContexts]_vars
    /\ [](\A t \in Txs : txState[t] # "live" =>
            (operations[t] = EmptyLogs /\ holder # t /\ ~guard[t]))

\* A commit() has just been refused with operations buffered, and the begin() of
\* the other transaction, blocked until then, finds the write guard free.
C24_Witness ==
    /\ last.call = "Background::commit"
    /\ last.result = "in_use"
    /\ last.len > 1
    /\ SchemaFree
    /\ \E u \in Txs : u # last.tx /\ waiting[u] > 0

\* The errors of the failing constraints among the first k links, those chained
\* earlier first.
RECURSIVE FailingErrors(_, _)
FailingErrors(answers, k) ==
    IF k = 0 THEN <<>>
    ELSE IF answers[k] = 0 THEN FailingErrors(answers, k - 1)
         ELSE Append(FailingErrors(answers, k - 1), answers[k])

\* The links whose constraint fails for the given answers.
Failing(answers) == {k \in DOMAIN answers : answers[k] # 0}

\* C25: when no link of the chain short-circuits (with_early(false) on the
\* default chain, copied by every later chain call), `with` evaluates the
\* constraint of every link, fails if and only if some constraint fails, and its
\* error holds the errors of all failing constraints, those chained earlier
\* before those chained later; when every link short-circuits and some constraint
\* fails, `with` returns the error of the most recently chained failing
\* constraint alone and has evaluated no constraint chained before that one.
C25_ChainWith ==
    verdict # None =>
        LET v == verdict[1]
            n == Len(chain)
            failing == Failing(v.answers)
        IN  /\ (\A k \in 1..n : ~chain[k].early) =>
                /\ v.evaluated = 1..n
                /\ (v.error # None) <=> (failing # {})
                /\ v.error # None =>
                    /\ v.error[1].errs = FailingErrors(v.answers, n)
                    /\ v.error[1].stack <=> (Cardinality(failing) > 1)
            /\ (\A k \in 1..n : chain[k].early) =>
                IF failing = {} THEN v.error = None /\ v.evaluated = 1..n
                ELSE /\ v.error = Some(Simple(v.answers[Greatest(failing)]))
                     /\ v.evaluated = Greatest(failing)..n

\* A chain of three links, none short-circuiting, has been evaluated against an
\* event for which two constraints fail with different errors and the one
\* chained between them holds.
C25_Witness ==
    /\ verdict # None
    /\ Len(chain) = MaxChain
    /\ \A k \in 1..Len(chain) : ~chain[k].early
    /\ verdict[1].answers = <<1, 0, 2>>
    /\ verdict[1].error = Some(Stack(<<1, 2>>))

\* The consumed experienced events whose event ends before the subject event
\* starts, and those whose event starts after the subject event ends.
ConsumedBefore == {item \in consumed : item.hi < subject[1].lo}
ConsumedAfter == {item \in consumed : item.lo > subject[1].hi}

\* C26: whatever iterators with_iter has consumed, result() holds as `before`
\* the closest consumed experienced event ending before the subject event
\* starts, as `after` the closest one starting after the subject event ends, and
\* each is present whenever a consumed item lies on that side.
C26_CloserResult ==
    subject # None =>
        /\ IF ConsumedBefore = {} THEN before = None
           ELSE /\ before # None
                /\ before[1] \in ConsumedBefore
                /\ \A item \in ConsumedBefore : ItemLe(item, before[1])
        /\ IF ConsumedAfter = {} THEN after = None
           ELSE /\ after # None
                /\ after[1] \in ConsumedAfter
                /\ \A item \in ConsumedAfter : ItemLe(after[1], item)

\* C27: a create of an id that is already stored returns AlreadyExists and
\* leaves every stored event as it was; a create of an id not stored returns Ok
\* and stores exactly the given event, leaving the others as they were; a find
\* returns NotFound exactly for the ids no create has returned Ok for, and
\* otherwise the stored event.
C27_RepoCreateFind ==
    /\ [][/\ (reply'.call = "create" /\ ContainsKey(reply'.id)) =>
                (reply'.result = "AlreadyExists" /\ events' = events)
          /\ (reply'.call = "create" /\ ~ContainsKey(reply'.id)) =>
                /\ reply'.result = "Ok"
                /\ events' = [events EXCEPT ![reply'.id] = reply'.name]
          /\ reply'.call = "find" =>
                /\ (reply'.result = "NotFound") <=> (reply'.id \notin createdIds)
                /\ reply'.result # "NotFound" =>
                    (reply'.result = "Ok" /\ reply'.name = events[reply'.id])
                /\ events' = events]_vars
    /\ [](createdIds = {id \in EventIds : ContainsKey(id)})

\* A create has just been refused for an id stored with another content, while
\* another id has never been created.
C27_Witness ==
    /\ reply.call = "create"
    /\ reply.result = "AlreadyExists"
    /\ events[reply.id] # reply.name
    /\ \E id \in EventIds : id \notin createdIds

\* C28: a run of SaveExperience::create never begins an event it holds, so it
\* never waits for itself; when the entity has an experience of the target
\* event already, create returns EventAlreadyExperienced having begun the target
\* event only, none of the events of the entity's experiences, and the
\* experiences of the entity stay as they were.
C28_NoSelfDeadlock ==
    /\ [](\A a \in SaveRuns :
            /\ run[a].pc # "deadlock"
            /\ \A i, j \in DOMAIN run[a].begun :
                    i # j => run[a].begun[i] # run[a].begun[j]
            /\ run[a].result = "EventAlreadyExperienced" =>
                    run[a].begun = <<run[a].target>>)
    /\ [][\A a \in SaveRuns :
            (run[a].pc = "check" /\ run'[a].pc # "check"
                /\ run[a].target \in experiences) =>
                    /\ run'[a].result = "EventAlreadyExperienced"
                    /\ run'[a].pc = "done"
                    /\ run'[a].begun = <<run[a].target>>
                    /\ experiences' = experiences]_vars

\* A create has returned EventAlreadyExperienced for an entity that has
\* experiences of the target event and of another event.
C28_Witness ==
    \E a \in SaveRuns :
        /\ run[a].result = "EventAlreadyExperienced"
        /\ run[a].target \in experiences
        /\ experiences # {run[a].target}

















====
